---- MODULE Spec2Model ----
(***************************************************************************)
(* The move-legality and board-state engine of the chess puzzle trainer    *)
(* (js/chess.ts): coordinate mapping, pseudo-legal move validation.        *)
(* JavaScript values are modelled as follows: a string argument is a       *)
(* record [typeof |-> "string", chars |-> <<...>>] whose chars are         *)
(* one-character strings; a board cell is a one-character piece code or    *)
(* Null; a function result is Ret(v) for a normal return of v and Throw    *)
(* for a raised TypeError.                                                 *)
(***************************************************************************)
EXTENDS Integers, Sequences, FiniteSets, TLC

VARIABLES boardState, fromAlgebraic, toAlgebraic, playerTurn, result, pc

\* The last call of a coordinate, parsing or move-application function:
\* a record of the function name, the arguments and the outcome.
VARIABLES call

\* The puzzle session of main.js: its module-level variables and the parts
\* of the page it reads and writes, as one record.
VARIABLES main

vars == <<boardState, fromAlgebraic, toAlgebraic, playerTurn, result, pc, call, main>>

\* ------------------------------------------------------------------ bounds

\* Number of files (a, b, c, ...) from which IsValidMoveOnBoard draws its
\* source, destination and extra-piece squares; all eight ranks are used.
MaxFile == 3

\* ------------------------------------------------------------ JS values

Null == "null"
Undefined == "undefined"
\* NaN is kept among the integers so that it can be an operand; every
\* comparison and subtraction that can meet it tests for it explicitly.
NaN == 0 - 1000000
isNaN(x) == x = NaN
TypeError == "TypeError"

Truthy(x) == x \notin {Null, Undefined}

JsString(cs) == [typeof |-> "string", chars |-> cs]
JsUndefined == [typeof |-> "undefined", chars |-> << >>]

Ret(v) == [threw |-> FALSE, value |-> v]
Throw == [threw |-> TRUE, value |-> FALSE]

Abs(n) == IF n < 0 THEN -n ELSE n

\* a / b for the operands the engine divides: b = |a|, so 0/0 = NaN.
Div(a, b) == IF b = 0 THEN NaN ELSE a \div b

LowerLetters == <<"a", "b", "c", "d", "e", "f", "g", "h", "i">>
Digits == <<"0", "1", "2", "3", "4", "5", "6", "7", "8", "9">>

IndexIn(seq, ch) == CHOOSE i \in 1..Len(seq) : seq[i] = ch
Occurs(seq, ch) == \E i \in 1..Len(seq) : seq[i] = ch

\* String.prototype.charCodeAt(0) of a one-character string.
charCodeAt(ch) ==
    IF Occurs(LowerLetters, ch) THEN 96 + IndexIn(LowerLetters, ch)
    ELSE IF Occurs(Digits, ch) THEN 47 + IndexIn(Digits, ch)
    ELSE IF ch = "z" THEN 122
    ELSE IF ch = "_" THEN 95
    ELSE IF ch = "A" THEN 65
    ELSE 32

\* parseInt of a one-character string: the value of the digit, else NaN.
parseInt(ch) == IF Occurs(Digits, ch) THEN IndexIn(Digits, ch) - 1 ELSE NaN

LowerPieces == <<"p", "n", "b", "r", "q", "k">>
UpperPieces == <<"P", "N", "B", "R", "Q", "K">>

toUpperCase(ch) ==
    IF Occurs(LowerPieces, ch) THEN UpperPieces[IndexIn(LowerPieces, ch)] ELSE ch

toLowerCase(ch) ==
    IF Occurs(UpperPieces, ch) THEN LowerPieces[IndexIn(UpperPieces, ch)] ELSE ch

\* ------------------------------------------------------- type definitions

WhitePieces == {"P", "R", "N", "B", "Q", "K"}
BlackPieces == {"p", "r", "n", "b", "q", "k"}
PieceCode == WhitePieces \cup BlackPieces
SquareState == PieceCode \cup {Null}
PlayerTurn == {"w", "b"}

\* ------------------------------------------------------ coordinate mapper

NullMapping == [isNull |-> TRUE, row |-> 0, col |-> 0]
Mapping(r, c) == [isNull |-> FALSE, row |-> r, col |-> c]

\* Mutant of algebraicToIndices: the test row > 7 is missing, so rank 0
\* maps to row 8.
algebraicToIndices_NoRowUpperCheck(algebraic) ==
    IF algebraic.typeof # "string" \/ Len(algebraic.chars) # 2 THEN NullMapping
    ELSE
        LET file == algebraic.chars[1]
            rankChar == algebraic.chars[2]
            col == charCodeAt(file) - charCodeAt("a")
            parsed == parseInt(rankChar)
            row == IF isNaN(parsed) THEN NaN ELSE 8 - parsed
        IN  IF col < 0 \/ col > 7 THEN NullMapping
            ELSE IF (~isNaN(row) /\ row < 0) \/ isNaN(row) THEN NullMapping
            ELSE Mapping(row, col)

algebraicToIndices(algebraic) ==
    IF algebraic.typeof # "string" \/ Len(algebraic.chars) # 2 THEN NullMapping
    ELSE
        LET file == algebraic.chars[1]
            rankChar == algebraic.chars[2]
            col == charCodeAt(file) - charCodeAt("a")
            parsed == parseInt(rankChar)
            row == IF isNaN(parsed) THEN NaN ELSE 8 - parsed
        IN  IF col < 0 \/ col > 7 THEN NullMapping
            ELSE IF (~isNaN(row) /\ (row < 0 \/ row > 7)) \/ isNaN(row)
                 THEN NullMapping
            ELSE Mapping(row, col)

\* typeof null is "object".
NullString == [typeof |-> "object", chars |-> << >>]

\* Mutant of indicesToAlgebraic: the rank is counted from row 0 upward.
indicesToAlgebraic_RankFromTop(row, col) ==
    IF row < 0 \/ row > 7 \/ col < 0 \/ col > 7 THEN NullString
    ELSE LET file == LowerLetters[col + 1]
             rank == Digits[(row + 1) + 1]
         IN  JsString(<<file, rank>>)

indicesToAlgebraic(row, col) ==
    IF row < 0 \/ row > 7 \/ col < 0 \/ col > 7 THEN NullString
    ELSE LET file == LowerLetters[col + 1]
             rank == Digits[(8 - row) + 1]
         IN  JsString(<<file, rank>>)

\* ------------------------------------------------------------ move engine

\* boardState[r][c]: reading a property of an undefined row raises a
\* TypeError, a missing column of an existing row reads as undefined.
Cell(b, r, c) ==
    IF r \notin DOMAIN b THEN TypeError
    ELSE IF c \notin DOMAIN b[r] THEN Undefined
    ELSE b[r][c]

RECURSIVE ScanLine(_, _, _, _, _, _, _)
\* for (let i = 1; i < n; i++) if (boardState[r0 + i*stepR][c0 + i*stepC]) return false;
\* return true;   entered with i = 1.
ScanLine(b, r0, c0, stepR, stepC, i, n) ==
    IF ~(i < n) THEN Ret(TRUE)
    ELSE LET x == Cell(b, r0 + i * stepR, c0 + i * stepC)
         IN  IF x = TypeError THEN Throw
             ELSE IF Truthy(x) THEN Ret(FALSE)
             ELSE ScanLine(b, r0, c0, stepR, stepC, i + 1, n)

\* Mutant of PawnCase: the double push does not look at the square between.
PawnCase_NoMidCheck(b, from, to, pieceIsWhite) ==
    LET dr == to.row - from.row
        dc == to.col - from.col
        absDc == Abs(dc)
        moveDir == IF pieceIsWhite THEN -1 ELSE 1
    IN  IF dc = 0 THEN
            IF Truthy(Cell(b, to.row, to.col)) THEN Ret(FALSE)
            ELSE IF dr = moveDir THEN Ret(TRUE)
            ELSE IF dr = 2 * moveDir THEN
                LET startingRank == IF pieceIsWhite THEN 6 ELSE 1
                IN  Ret(from.row = startingRank)
            ELSE Ret(FALSE)
        ELSE IF absDc = 1 /\ dr = moveDir THEN Ret(Truthy(Cell(b, to.row, to.col)))
        ELSE Ret(FALSE)

\* Mutant of PawnCase: the diagonal step does not require a piece to capture.
PawnCase_CaptureEmpty(b, from, to, pieceIsWhite) ==
    LET dr == to.row - from.row
        dc == to.col - from.col
        absDc == Abs(dc)
        moveDir == IF pieceIsWhite THEN -1 ELSE 1
    IN  IF dc = 0 THEN
            IF Truthy(Cell(b, to.row, to.col)) THEN Ret(FALSE)
            ELSE IF dr = moveDir THEN Ret(TRUE)
            ELSE IF dr = 2 * moveDir THEN
                LET startingRank == IF pieceIsWhite THEN 6 ELSE 1
                IN  IF from.row # startingRank THEN Ret(FALSE)
                    ELSE LET mid == Cell(b, from.row + moveDir, from.col)
                         IN  IF mid = TypeError THEN Throw ELSE Ret(~Truthy(mid))
            ELSE Ret(FALSE)
        ELSE IF absDc = 1 /\ dr = moveDir THEN Ret(TRUE)
        ELSE Ret(FALSE)

PawnCase(b, from, to, pieceIsWhite) ==
    LET dr == to.row - from.row
        dc == to.col - from.col
        absDc == Abs(dc)
        moveDir == IF pieceIsWhite THEN -1 ELSE 1
    IN  IF dc = 0 THEN
            IF Truthy(Cell(b, to.row, to.col)) THEN Ret(FALSE)
            ELSE IF dr = moveDir THEN Ret(TRUE)
            ELSE IF dr = 2 * moveDir THEN
                LET startingRank == IF pieceIsWhite THEN 6 ELSE 1
                IN  IF from.row # startingRank THEN Ret(FALSE)
                    ELSE LET mid == Cell(b, from.row + moveDir, from.col)
                         IN  IF mid = TypeError THEN Throw ELSE Ret(~Truthy(mid))
            ELSE Ret(FALSE)
        ELSE IF absDc = 1 /\ dr = moveDir THEN Ret(Truthy(Cell(b, to.row, to.col)))
        ELSE Ret(FALSE)

\* Mutant of KnightCase: only the (2,1) jumps are accepted.
KnightCase_OnlyTwoOne(from, to) ==
    LET absDr == Abs(to.row - from.row)
        absDc == Abs(to.col - from.col)
    IN  Ret(absDr = 2 /\ absDc = 1)

KnightCase(from, to) ==
    LET absDr == Abs(to.row - from.row)
        absDc == Abs(to.col - from.col)
    IN  Ret((absDr = 2 /\ absDc = 1) \/ (absDr = 1 /\ absDc = 2))

\* Mutant of BishopCase: the obstruction loop starts at i = 2.
BishopCase_ScanFromTwo(b, from, to) ==
    LET dr == to.row - from.row
        dc == to.col - from.col
        absDr == Abs(dr)
        absDc == Abs(dc)
    IN  IF absDr # absDc THEN Ret(FALSE)
        ELSE ScanLine(b, from.row, from.col, Div(dr, absDr), Div(dc, absDc), 2, absDr)

BishopCase(b, from, to) ==
    LET dr == to.row - from.row
        dc == to.col - from.col
        absDr == Abs(dr)
        absDc == Abs(dc)
    IN  IF absDr # absDc THEN Ret(FALSE)
        ELSE ScanLine(b, from.row, from.col, Div(dr, absDr), Div(dc, absDc), 1, absDr)

\* Mutant of RookCase: a move along a file is not checked for obstruction.
RookCase_NoFileScan(b, from, to) ==
    LET dr == to.row - from.row
        dc == to.col - from.col
        absDr == Abs(dr)
        absDc == Abs(dc)
    IN  IF dr # 0 /\ dc # 0 THEN Ret(FALSE)
        ELSE IF dr = 0
             THEN ScanLine(b, from.row, from.col, 0, Div(dc, absDc), 1, absDc)
             ELSE Ret(TRUE)

RookCase(b, from, to) ==
    LET dr == to.row - from.row
        dc == to.col - from.col
        absDr == Abs(dr)
        absDc == Abs(dc)
    IN  IF dr # 0 /\ dc # 0 THEN Ret(FALSE)
        ELSE IF dr = 0
             THEN ScanLine(b, from.row, from.col, 0, Div(dc, absDc), 1, absDc)
             ELSE ScanLine(b, from.row, from.col, Div(dr, absDr), 0, 1, absDr)

\* Mutant of QueenCase: the loop along a rank is bounded by absDr (= 0).
QueenCase_RankBoundDr(b, from, to) ==
    LET dr == to.row - from.row
        dc == to.col - from.col
        absDr == Abs(dr)
        absDc == Abs(dc)
    IN  IF absDr = absDc
        THEN ScanLine(b, from.row, from.col, Div(dr, absDr), Div(dc, absDc), 1, absDr)
        ELSE IF dr = 0 \/ dc = 0 THEN
            IF dr = 0
            THEN ScanLine(b, from.row, from.col, 0, Div(dc, absDc), 1, absDr)
            ELSE ScanLine(b, from.row, from.col, Div(dr, absDr), 0, 1, absDr)
        ELSE Ret(FALSE)

QueenCase(b, from, to) ==
    LET dr == to.row - from.row
        dc == to.col - from.col
        absDr == Abs(dr)
        absDc == Abs(dc)
    IN  IF absDr = absDc
        THEN ScanLine(b, from.row, from.col, Div(dr, absDr), Div(dc, absDc), 1, absDr)
        ELSE IF dr = 0 \/ dc = 0 THEN
            IF dr = 0
            THEN ScanLine(b, from.row, from.col, 0, Div(dc, absDc), 1, absDc)
            ELSE ScanLine(b, from.row, from.col, Div(dr, absDr), 0, 1, absDr)
        ELSE Ret(FALSE)

\* Mutant of KingCase: the column distance is not limited.
KingCase_RowOnly(from, to) ==
    LET absDr == Abs(to.row - from.row)
    IN  Ret(absDr <= 1)

KingCase(from, to) ==
    LET absDr == Abs(to.row - from.row)
        absDc == Abs(to.col - from.col)
    IN  Ret(absDr <= 1 /\ absDc <= 1)

\* Mutant of NotOwnPiece: only the white side's turn is enforced.
NotOwnPiece_WhiteOnly(pieceIsWhite, turn) ==
    turn = "w" /\ ~pieceIsWhite

\* The opponent-piece test of isValidMove.
NotOwnPiece(pieceIsWhite, turn) ==
    (turn = "w" /\ ~pieceIsWhite) \/ (turn = "b" /\ pieceIsWhite)

\* Mutant of FriendlyDest: only white's own pieces are protected.
FriendlyDest_WhiteOnly(destPiece, turn) ==
    /\ Truthy(destPiece)
    /\ LET destPieceIsWhite == destPiece = toUpperCase(destPiece)
       IN  turn = "w" /\ destPieceIsWhite

\* The friendly-destination test of isValidMove.
FriendlyDest(destPiece, turn) ==
    /\ Truthy(destPiece)
    /\ LET destPieceIsWhite == destPiece = toUpperCase(destPiece)
       IN  (turn = "w" /\ destPieceIsWhite) \/ (turn = "b" /\ ~destPieceIsWhite)

isValidMove(b, fromAlg, toAlg, turn) ==
    LET from == algebraicToIndices(fromAlg)
        to == algebraicToIndices(toAlg)
    IN  IF from.isNull \/ to.isNull THEN Ret(FALSE)
        ELSE LET piece == Cell(b, from.row, from.col)
             IN
        IF piece = TypeError THEN Throw
        ELSE IF ~Truthy(piece) THEN Ret(FALSE)
        ELSE LET pieceIsWhite == piece = toUpperCase(piece)
             IN
        IF NotOwnPiece(pieceIsWhite, turn) THEN Ret(FALSE)
        ELSE LET destPiece == Cell(b, to.row, to.col)
             IN
        IF destPiece = TypeError THEN Throw
        ELSE IF FriendlyDest(destPiece, turn) THEN Ret(FALSE)
        ELSE LET kind == toLowerCase(piece)
             IN
        CASE kind = "p" -> PawnCase(b, from, to, pieceIsWhite)
          [] kind = "n" -> KnightCase(from, to)
          [] kind = "b" -> BishopCase(b, from, to)
          [] kind = "r" -> RookCase(b, from, to)
          [] kind = "q" -> QueenCase(b, from, to)
          [] kind = "k" -> KingCase(from, to)
          [] OTHER -> Ret(FALSE)

\* ---------------------------------------------------------- position codec

\* Array(8).fill(null).map(() => Array(8).fill(null))
EmptyBoard == [r \in 0..7 |-> [c \in 0..7 |-> Null]]

Place(b, r, c, p) == [b EXCEPT ![r][c] = p]

RECURSIVE SplitFrom(_, _, _, _)
\* The pieces of s from position i on, cur being the piece under way.
SplitFrom(s, sep, i, cur) ==
    IF i > Len(s) THEN <<cur>>
    ELSE IF s[i] = sep THEN <<cur>> \o SplitFrom(s, sep, i + 1, << >>)
    ELSE SplitFrom(s, sep, i + 1, Append(cur, s[i]))

\* String.prototype.split(sep) for a one-character separator.
split(s, sep) == SplitFrom(s, sep, 1, << >>)

\* row[c] = v on an array: an index past the end makes the array longer.
SetCell(row, c, v) == [x \in (DOMAIN row) \cup {c} |-> IF x = c THEN v ELSE row[x]]

\* Mutant of CharStep: a digit advances the column cursor by one only.
CharStep_DigitSkipsOne(board, r, colIndex, char) ==
    IF isNaN(parseInt(char)) THEN
        IF colIndex < 8 THEN
            IF r \notin DOMAIN board
            THEN [threw |-> TRUE, board |-> board, colIndex |-> colIndex]
            ELSE [threw |-> FALSE,
                  board |-> [board EXCEPT ![r] = SetCell(board[r], colIndex, char)],
                  colIndex |-> colIndex + 1]
        ELSE [threw |-> FALSE, board |-> board, colIndex |-> colIndex]
    ELSE [threw |-> FALSE, board |-> board, colIndex |-> colIndex + 1]

\* Mutant of CharStep: a piece is stored without the test colIndex < 8.
CharStep_NoColumnGuard(board, r, colIndex, char) ==
    IF isNaN(parseInt(char)) THEN
        IF r \notin DOMAIN board
        THEN [threw |-> TRUE, board |-> board, colIndex |-> colIndex]
        ELSE [threw |-> FALSE,
              board |-> [board EXCEPT ![r] = SetCell(board[r], colIndex, char)],
              colIndex |-> colIndex + 1]
    ELSE [threw |-> FALSE, board |-> board, colIndex |-> colIndex + parseInt(char)]

\* The body of the inner loop of fenToBoard for one character: the board,
\* the column cursor, and whether board[r][colIndex] = char raised a
\* TypeError (board[r] undefined).
CharStep(board, r, colIndex, char) ==
    IF isNaN(parseInt(char)) THEN
        IF colIndex < 8 THEN
            IF r \notin DOMAIN board
            THEN [threw |-> TRUE, board |-> board, colIndex |-> colIndex]
            ELSE [threw |-> FALSE,
                  board |-> [board EXCEPT ![r] = SetCell(board[r], colIndex, char)],
                  colIndex |-> colIndex + 1]
        ELSE [threw |-> FALSE, board |-> board, colIndex |-> colIndex]
    ELSE [threw |-> FALSE, board |-> board, colIndex |-> colIndex + parseInt(char)]

RECURSIVE RankLoop(_, _, _, _, _)
\* for (charIndex ...; charIndex < rankStr.length; charIndex++), charIndex
\* counted from 1.
RankLoop(board, r, rankStr, charIndex, colIndex) ==
    IF charIndex > Len(rankStr) THEN [threw |-> FALSE, board |-> board]
    ELSE LET step == CharStep(board, r, colIndex, rankStr[charIndex])
         IN  IF step.threw THEN [threw |-> TRUE, board |-> step.board]
             ELSE RankLoop(step.board, r, rankStr, charIndex + 1, step.colIndex)

RECURSIVE RanksLoop(_, _, _)
\* for (let r = 0; r < ranks.length; r++); ranks[r] is ranks[r + 1] here.
RanksLoop(board, ranks, r) ==
    IF ~(r < Len(ranks)) THEN Ret(board)
    ELSE LET done == RankLoop(board, r, ranks[r + 1], 1, 0)
         IN  IF done.threw THEN Throw ELSE RanksLoop(done.board, ranks, r + 1)

fenToBoard(fenString) ==
    LET board == EmptyBoard
        piecePlacement == split(fenString.chars, " ")[1]
        ranks == split(piecePlacement, "/")
    IN  RanksLoop(board, ranks, 0)

\* ------------------------------------------------------------ makeMove

\* Arrays are objects: a heap maps the identities 0, 1, 2, ... to arrays, and
\* a board is the identity of an array whose elements are the identities of
\* its rows.
HeapOf(grid) ==
    [id \in 0..8 |-> IF id = 0 THEN [r \in 0..7 |-> r + 1] ELSE grid[id - 1]]

\* The grid of cells reached from a board identity.
Grid(heap, b) == [r \in DOMAIN heap[b] |-> heap[heap[b][r]]]

\* heap[rowId][c] = v
HeapSet(heap, rowId, c, v) == [heap EXCEPT ![rowId] = SetCell(heap[rowId], c, v)]

\* Mutant of DeepCopy: [...boardState], a new outer array sharing the rows.
DeepCopy_Shallow(heap, b, fresh) ==
    [id \in (DOMAIN heap) \cup {fresh} |->
        IF id \in DOMAIN heap THEN heap[id] ELSE heap[b]]

\* boardState.map(row => [...row]): a new outer array at identity fresh
\* whose rows are new arrays with the cells of the rows of b.
DeepCopy(heap, b, fresh) ==
    LET rows == heap[b]
    IN  [id \in (DOMAIN heap) \cup {fresh} \cup {fresh + 1 + r : r \in DOMAIN rows} |->
            IF id \in DOMAIN heap THEN heap[id]
            ELSE IF id = fresh THEN [r \in DOMAIN rows |-> fresh + 1 + r]
            ELSE heap[rows[id - fresh - 1]]]

\* Mutant of makeMove: the source cell is not cleared.
makeMove_KeepSource(heap, b, fromAlg, toAlg) ==
    LET from == algebraicToIndices(fromAlg)
        to == algebraicToIndices(toAlg)
    IN  IF from.isNull \/ to.isNull THEN [threw |-> FALSE, value |-> b, heap |-> heap]
        ELSE
        LET newBoardState == Cardinality(DOMAIN heap)
            copied == DeepCopy(heap, b, newBoardState)
            rows == copied[newBoardState]
        IN  IF from.row \notin DOMAIN rows \/ to.row \notin DOMAIN rows
            THEN [threw |-> TRUE, value |-> b, heap |-> copied]
            ELSE
            LET fromRow == copied[rows[from.row]]
                piece == IF from.col \in DOMAIN fromRow THEN fromRow[from.col]
                         ELSE Undefined
                moved == HeapSet(copied, rows[to.row], to.col, piece)
                cleared == moved
            IN  [threw |-> FALSE, value |-> newBoardState, heap |-> cleared]

\* Mutant of makeMove: the guard is !from && !to, so one unparsed square is
\* dereferenced.
makeMove_AndGuard(heap, b, fromAlg, toAlg) ==
    LET from == algebraicToIndices(fromAlg)
        to == algebraicToIndices(toAlg)
    IN  IF from.isNull /\ to.isNull THEN [threw |-> FALSE, value |-> b, heap |-> heap]
        ELSE IF from.isNull \/ to.isNull THEN [threw |-> TRUE, value |-> b, heap |-> heap]
        ELSE
        LET newBoardState == Cardinality(DOMAIN heap)
            copied == DeepCopy(heap, b, newBoardState)
            rows == copied[newBoardState]
        IN  IF from.row \notin DOMAIN rows \/ to.row \notin DOMAIN rows
            THEN [threw |-> TRUE, value |-> b, heap |-> copied]
            ELSE
            LET fromRow == copied[rows[from.row]]
                piece == IF from.col \in DOMAIN fromRow THEN fromRow[from.col]
                         ELSE Undefined
                moved == HeapSet(copied, rows[to.row], to.col, piece)
                cleared == HeapSet(moved, rows[from.row], from.col, Null)
            IN  [threw |-> FALSE, value |-> newBoardState, heap |-> cleared]

\* The outcome: whether a TypeError was raised, the identity returned, and
\* the heap after the call.
makeMove(heap, b, fromAlg, toAlg) ==
    LET from == algebraicToIndices(fromAlg)
        to == algebraicToIndices(toAlg)
    IN  IF from.isNull \/ to.isNull THEN [threw |-> FALSE, value |-> b, heap |-> heap]
        ELSE
        LET newBoardState == Cardinality(DOMAIN heap)
            copied == DeepCopy(heap, b, newBoardState)
            rows == copied[newBoardState]
        IN  IF from.row \notin DOMAIN rows \/ to.row \notin DOMAIN rows
            THEN [threw |-> TRUE, value |-> b, heap |-> copied]
            ELSE
            LET fromRow == copied[rows[from.row]]
                piece == IF from.col \in DOMAIN fromRow THEN fromRow[from.col]
                         ELSE Undefined
                moved == HeapSet(copied, rows[to.row], to.col, piece)
                cleared == HeapSet(moved, rows[from.row], from.col, Null)
            IN  [threw |-> FALSE, value |-> newBoardState, heap |-> cleared]

\* ----------------------------------------------------------- puzzle session

\* makeMove on a board value: the grid of the identity it returns.
makeMoveOnGrid(grid, fromAlg, toAlg) ==
    LET r == makeMove(HeapOf(grid), 0, fromAlg, toAlg)
    IN  Grid(r.heap, r.value)

\* String.prototype.substring(start, end) and string concatenation.
substring(s, start, end) ==
    LET n == Len(s.chars)
        lo == IF start > n THEN n ELSE start
        hi == IF end > n THEN n ELSE end
    IN  JsString(SubSeq(s.chars, lo + 1, hi))

Concat(a, b) == JsString(a.chars \o b.chars)

\* currentPuzzle is null or a reference to an element of puzzles.
NoPuzzle == [isNull |-> TRUE, ref |-> 0]
PuzzleRef(index) == [isNull |-> FALSE, ref |-> index]

\* The page as the document is parsed, before any script has acted.
InitialMessageArea == [textContent |-> "", className |-> ""]
InitialNextPuzzleButton == [display |-> "", textContent |-> "Next Puzzle", disabled |-> FALSE]
InitialChessboard == [squares |-> FALSE, pieces |-> EmptyBoard, selected |-> {}]

\* currentBoardState before any position has been parsed: null, which has
\* no rows.
NullBoard == << >>

\* The session when the script has been loaded: lines 5-12.
ModuleLoaded ==
    [currentBoardState |-> NullBoard,
     puzzles |-> << >>,
     currentPuzzle |-> NoPuzzle,
     currentPuzzleIndex |-> 0,
     selectedSquare |-> NullString,
     playerTurn |-> "w",
     messageArea |-> Null,
     nextPuzzleButton |-> Null,
     readyState |-> "loading",
     fetch |-> "none",
     chessboard |-> InitialChessboard,
     puzzle_description |-> "",
     turn_indicator |-> "",
     message_area |-> InitialMessageArea,
     next_puzzle_button |-> InitialNextPuzzleButton]

\* The active puzzle object and its solution cursor.
ActivePuzzle(m) == m.puzzles[m.currentPuzzle.ref + 1]
Cursor(m) == ActivePuzzle(m).currentMoveIndexInSolution

\* puzzle.currentMoveIndexInSolution = n, on an object that may not have
\* the property yet.
SetCursor(puzzle, n) ==
    [f \in DOMAIN puzzle \cup {"currentMoveIndexInSolution"} |->
        IF f = "currentMoveIndexInSolution" THEN n ELSE puzzle[f]]

Flip(turn) == IF turn = "w" THEN "b" ELSE "w"

updateTurnIndicator(m) ==
    [m EXCEPT !.turn_indicator =
        IF m.playerTurn = "w" THEN "White to move" ELSE "Black to move"]

displayMessage(m, text, type) ==
    IF m.messageArea = Null THEN m
    ELSE [m EXCEPT !.message_area =
            [textContent |-> text,
             className |-> IF type = "success" THEN "success"
                           ELSE IF type = "error" THEN "error" ELSE ""]]

\* displayPieces: every square shows the piece of its cell, or nothing.
displayPieces(m, grid) ==
    IF m.chessboard.squares THEN [m EXCEPT !.chessboard.pieces = grid] ELSE m

initializeBoardUI(m) ==
    [m EXCEPT !.chessboard = [squares |-> TRUE, pieces |-> EmptyBoard, selected |-> {}]]

\* Lines 63-74: the message is cleared, the button hidden and the selection
\* dropped.
ClearMessageArea(m) ==
    IF m.messageArea = Null THEN m ELSE [m EXCEPT !.message_area = InitialMessageArea]

HideNextPuzzleButton(m) ==
    IF m.nextPuzzleButton = Null THEN m
    ELSE [m EXCEPT !.next_puzzle_button.display = "none"]

ClearSelection(m) ==
    IF m.selectedSquare = NullString THEN m
    ELSE [m EXCEPT !.chessboard.selected = @ \ {m.selectedSquare},
                   !.selectedSquare = NullString]

\* The board becomes the current board and is displayed.
ShowBoard(m, grid) == displayPieces([m EXCEPT !.currentBoardState = grid], grid)

\* Lines 48-51: the puzzle at index becomes the active puzzle.
Activate(m, index) ==
    [m EXCEPT !.currentPuzzle = PuzzleRef(index),
              !.currentPuzzleIndex = index,
              !.playerTurn = m.puzzles[index + 1].turn,
              !.puzzles[index + 1] = SetCursor(m.puzzles[index + 1], 0)]

Describe(m) == [m EXCEPT !.puzzle_description = ActivePuzzle(m).description]

\* Line 54 raises a fault: the position of the puzzle does not parse.
LoadFaults(m, index) ==
    /\ index >= 0
    /\ index < Len(m.puzzles)
    /\ fenToBoard(m.puzzles[index + 1].fen).threw

\* The state the call leaves behind; when line 54 faults, lines 55-76 have
\* not run.
loadPuzzleByIndex(m, index) ==
    IF index < 0 \/ index >= Len(m.puzzles) THEN m
    ELSE
    LET parsed == fenToBoard(m.puzzles[index + 1].fen)
    IN  IF parsed.threw THEN Activate(m, index)
        ELSE ClearSelection(HideNextPuzzleButton(ClearMessageArea(updateTurnIndicator(
                Describe(ShowBoard(Activate(m, index), parsed.value))))))

\* Lines 239-248 and 290-299: the solved message and the next-puzzle button.
SetNextPuzzleButton(m) ==
    IF m.currentPuzzleIndex >= Len(m.puzzles) - 1
    THEN [m EXCEPT !.next_puzzle_button.textContent = "All Puzzles Solved!",
                   !.next_puzzle_button.disabled = TRUE]
    ELSE [m EXCEPT !.next_puzzle_button.textContent = "Next Puzzle",
                   !.next_puzzle_button.disabled = FALSE]

ShowNextPuzzleButton(m) ==
    IF m.nextPuzzleButton = Null THEN m
    ELSE [m EXCEPT !.next_puzzle_button.display = "block"]

ShowSolved(m, text) ==
    SetNextPuzzleButton(ShowNextPuzzleButton(displayMessage(m, text, "success")))

\* Lines 233-235 and 284-286: the move is applied to the current board, the
\* board is displayed and the solution cursor advances.
\* Mutant of AdvanceCursor: the cursor goes up by two.
AdvanceCursor_ByTwo(m) ==
    [m EXCEPT !.puzzles[m.currentPuzzle.ref + 1] =
        SetCursor(ActivePuzzle(m), Cursor(m) + 2)]

AdvanceCursor(m) ==
    [m EXCEPT !.puzzles[m.currentPuzzle.ref + 1] =
        SetCursor(ActivePuzzle(m), Cursor(m) + 1)]

ApplySolutionMove(m, fromSq, toSq) ==
    AdvanceCursor(ShowBoard(m, makeMoveOnGrid(m.currentBoardState, fromSq, toSq)))

SwitchTurn(m) == updateTurnIndicator([m EXCEPT !.playerTurn = Flip(m.playerTurn)])

Solved(m) == Cursor(m) >= Len(ActivePuzzle(m).solution)

\* Lines 289-300 and 306-308: after the reply, the puzzle is solved or the
\* turn goes back to the player.
\* Mutant of AfterReply: the side to move is not switched back.
AfterReply_NoSwitch(replied) ==
    IF Solved(replied) THEN ShowSolved(replied, "Puzzle Solved! (after computer move)")
    ELSE replied

AfterReply(replied) ==
    IF Solved(replied) THEN ShowSolved(replied, "Puzzle Solved! (after computer move)")
    ELSE SwitchTurn(replied)

\* Mutant of ComputerReply: the reply is validated but never applied.
ComputerReply_NotApplied(m) ==
    LET compMoveString == ActivePuzzle(m).solution[Cursor(m) + 1]
        compFromSq == substring(compMoveString, 0, 2)
        compToSq == substring(compMoveString, 2, 4)
        valid == isValidMove(m.currentBoardState, compFromSq, compToSq, m.playerTurn)
    IN  IF valid.threw THEN m
        ELSE IF valid.value THEN SwitchTurn(m)
        ELSE SwitchTurn(displayMessage(m, "Error in puzzle solution (computer move).",
                                       "error"))

\* Mutant of ComputerReply: the reply is applied without validation.
ComputerReply_Unchecked(m) ==
    LET compMoveString == ActivePuzzle(m).solution[Cursor(m) + 1]
        compFromSq == substring(compMoveString, 0, 2)
        compToSq == substring(compMoveString, 2, 4)
    IN  AfterReply(ApplySolutionMove(m, compFromSq, compToSq))

\* Lines 276-309: the scripted reply at the cursor.
ComputerReply(m) ==
    LET compMoveString == ActivePuzzle(m).solution[Cursor(m) + 1]
        compFromSq == substring(compMoveString, 0, 2)
        compToSq == substring(compMoveString, 2, 4)
        valid == isValidMove(m.currentBoardState, compFromSq, compToSq, m.playerTurn)
    IN  IF valid.threw THEN m
        ELSE IF valid.value THEN AfterReply(ApplySolutionMove(m, compFromSq, compToSq))
        ELSE SwitchTurn(displayMessage(m, "Error in puzzle solution (computer move).",
                                       "error"))

\* Lines 270-273: the side whose move stands at the cursor.
currentSolutionMovePlayer(m) ==
    IF Cursor(m) % 2 # 0 THEN Flip(ActivePuzzle(m).turn) ELSE ActivePuzzle(m).turn

\* Mutant of ReplyIfScripted: no reply is played.
ReplyIfScripted_Never(switched) == switched

\* Lines 276-309: the reply is played when the side to move is that side.
ReplyIfScripted(switched) ==
    IF switched.playerTurn = currentSolutionMovePlayer(switched)
    THEN ComputerReply(switched)
    ELSE switched

\* Lines 238-309: after the move of the player.
AfterPlayerMove(moved) ==
    IF Solved(moved) THEN ShowSolved(moved, "Puzzle Solved!")
    ELSE ReplyIfScripted(SwitchTurn(moved))

\* Lines 232-310: the move of the player equals the expected move.
CorrectMove(m, sourceSquare, destinationSquare) ==
    AfterPlayerMove(displayMessage(ApplySolutionMove(m, sourceSquare, destinationSquare),
                                   "Correct move!", "success"))

\* Lines 192-205: the first click, which may select a piece; reading a cell
\* of a null board is a TypeError, which ends the handler.
FirstClick(m, clickedSquareAlgebraic) ==
    LET at == algebraicToIndices(clickedSquareAlgebraic)
        pieceCodeOnSquare == m.currentBoardState[at.row][at.col]
    IN  IF m.currentBoardState = NullBoard THEN m
        ELSE IF Truthy(pieceCodeOnSquare) THEN
            LET isWhitePiece == pieceCodeOnSquare = toUpperCase(pieceCodeOnSquare)
            IN  IF (m.playerTurn = "w" /\ isWhitePiece) \/ (m.playerTurn = "b" /\ ~isWhitePiece)
                THEN displayMessage(
                        [m EXCEPT !.selectedSquare = clickedSquareAlgebraic,
                                  !.chessboard.selected = @ \cup {clickedSquareAlgebraic}],
                        "Piece selected. Click destination square.", "info")
                ELSE displayMessage(m, "Not your turn or not your piece.", "error")
        ELSE displayMessage(m, "Clicked an empty square. Select a piece.", "info")

\* Mutant of SecondClick: the selection is kept.
SecondClick_KeepsSelection(m, clickedSquareAlgebraic) ==
    LET sourceSquare == m.selectedSquare
        destinationSquare == clickedSquareAlgebraic
        deselected == m
    IN  IF sourceSquare = destinationSquare
        THEN displayMessage(deselected, "Selection cancelled.", "info")
        ELSE
        LET valid == isValidMove(deselected.currentBoardState, sourceSquare,
                                 destinationSquare, deselected.playerTurn)
        IN  IF valid.threw THEN deselected
            ELSE IF ~valid.value
            THEN displayMessage(deselected, "Invalid move for that piece.", "error")
            ELSE
            LET attemptedMoveString == Concat(sourceSquare, destinationSquare)
                solution == ActivePuzzle(deselected).solution
                expectedMoveString ==
                    IF Cursor(deselected) < Len(solution)
                    THEN solution[Cursor(deselected) + 1] ELSE JsUndefined
            IN  IF attemptedMoveString = expectedMoveString
                THEN CorrectMove(deselected, sourceSquare, destinationSquare)
                ELSE displayMessage(deselected, "Incorrect move. Try again.", "error")

\* Lines 206-316: the second click, which names the destination.
SecondClick(m, clickedSquareAlgebraic) ==
    LET sourceSquare == m.selectedSquare
        destinationSquare == clickedSquareAlgebraic
        deselected == [m EXCEPT !.chessboard.selected = @ \ {sourceSquare},
                                !.selectedSquare = NullString]
    IN  IF sourceSquare = destinationSquare
        THEN displayMessage(deselected, "Selection cancelled.", "info")
        ELSE
        LET valid == isValidMove(deselected.currentBoardState, sourceSquare,
                                 destinationSquare, deselected.playerTurn)
        IN  IF valid.threw THEN deselected
            ELSE IF ~valid.value
            THEN displayMessage(deselected, "Invalid move for that piece.", "error")
            ELSE
            LET attemptedMoveString == Concat(sourceSquare, destinationSquare)
                solution == ActivePuzzle(deselected).solution
                expectedMoveString ==
                    IF Cursor(deselected) < Len(solution)
                    THEN solution[Cursor(deselected) + 1] ELSE JsUndefined
            IN  IF attemptedMoveString = expectedMoveString
                THEN CorrectMove(deselected, sourceSquare, destinationSquare)
                ELSE displayMessage(deselected, "Incorrect move. Try again.", "error")

handleSquareClick(m, clickedSquareAlgebraic) ==
    IF m.currentPuzzle.isNull THEN m
    ELSE IF m.selectedSquare = NullString THEN FirstClick(m, clickedSquareAlgebraic)
    ELSE SecondClick(m, clickedSquareAlgebraic)

\* ------------------------------------------------------------------ inputs

WindowRows == 0..7
WindowCols == 0..(MaxFile - 1)

\* A second piece of the board, of either colour, or none.
NoExtra == [r |-> 0 - 1, c |-> 0 - 1, p |-> Null]
ExtraPieces == {NoExtra} \cup [r : WindowRows, c : WindowCols, p : {"P", "p"}]

\* The board holding src on (r, c) and the extra piece, if any, elsewhere.
BoardOf(r, c, src, extra) ==
    LET b0 == Place(EmptyBoard, r, c, src)
    IN  IF extra = NoExtra THEN b0 ELSE Place(b0, extra.r, extra.c, extra.p)

Str1(a) == JsString(<<a>>)
Str2(a, b) == JsString(<<a, b>>)
Str3(a, b, c) == JsString(<<a, b, c>>)

ValidTexts == {Str2("e", "4"), Str2("e", "5"), Str2("d", "5"), Str2("a", "1"),
               Str2("h", "8")}

InvalidTexts == {JsString(<< >>), Str1("e"), Str2("z", "9"), Str2("a", "0"),
                 Str2("a", "9"), Str2("i", "1"), Str2("_", "1"), Str2("A", "1"),
                 Str2("e", "e"), Str2("4", "e"), Str3("e", "4", "4"), JsUndefined}

TextInputs == ValidTexts \cup InvalidTexts

\* The standard starting position, with its trailing fields.
StartFen == JsString(
    <<"r", "n", "b", "q", "k", "b", "n", "r", "/", "p", "p", "p", "p", "p",
      "p", "p", "p", "/", "8", "/", "8", "/", "8", "/", "8", "/", "P", "P",
      "P", "P", "P", "P", "P", "P", "/", "R", "N", "B", "Q", "K", "B", "N",
      "R", " ", "w", " ", "K", "Q", "k", "q", " ", "-", " ", "0", " ", "1">>)

\* A middle-game position of the tests.
ComplexFen == JsString(
    <<"r", "1", "b", "q", "k", "1", "n", "r", "/", "p", "p", "1", "p", "1",
      "p", "p", "p", "/", "2", "n", "1", "p", "3", "/", "2", "b", "5", "/",
      "4", "P", "3", "/", "5", "N", "2", "/", "P", "P", "P", "2", "P", "P",
      "P", "/", "R", "N", "B", "Q", "K", "B", "1", "R", " ", "w", " ", "K",
      "Q", "k", "q", " ", "-", " ", "0", " ", "1">>)

\* Position descriptions built from MaxLead or fewer leading empty ranks
\* "8", one rank string of MaxRankLen or fewer characters, optionally a
\* further rank string of at most one character, and optionally a trailing
\* field.
MaxLead == 8
MaxRankLen == 3

FenChars == {"p", "Q", "x", "1", "8"}
StringsUpTo(n) == UNION {[1..k -> FenChars] : k \in 0..n}

RECURSIVE LeadRanks(_)
LeadRanks(n) == IF n = 0 THEN << >> ELSE <<"8", "/">> \o LeadRanks(n - 1)

NoRank == <<"-">>
GeneratedFens ==
    {JsString(LeadRanks(n) \o r1 \o (IF r2 = NoRank THEN << >> ELSE <<"/">> \o r2)
              \o tail) :
        n \in 0..MaxLead, r1 \in StringsUpTo(MaxRankLen),
        r2 \in StringsUpTo(1) \cup {NoRank}, tail \in {<< >>, <<" ", "Q">>}}

FenInputs == {StartFen, ComplexFen} \cup GeneratedFens

\* The 64 square names, and the boards makeMove is applied to.
AllSquareTexts == {indicesToAlgebraic(r, c) : r \in 0..7, c \in 0..7}
MoveBoards == {fenToBoard(StartFen).value, fenToBoard(ComplexFen).value}

\* Texts of MaxTextLen or fewer characters for algebraicToIndices, and index
\* pairs reaching IndexMargin beyond the board on every side.
MaxTextLen == 3
IndexMargin == 2

CoordChars == {"a", "b", "c", "d", "e", "f", "g", "h", "i", "z", "_", "A",
               "0", "1", "2", "3", "4", "5", "6", "7", "8", "9"}
CoordTexts ==
    {JsUndefined} \cup {JsString(cs) : cs \in UNION {[1..k -> CoordChars] : k \in 0..MaxTextLen}}
CoordIndices == (0 - IndexMargin)..(7 + IndexMargin)

\* The puzzle lists that the fetch of puzzles/puzzles.json may deliver: the
\* two puzzles of the session tests, and a list with a three-move solution,
\* a solution whose scripted reply is not a move of the piece, and a puzzle
\* in which black moves first.
RookFen == JsString(
    <<"4", "k", "3", "/", "8", "/", "8", "/", "8", "/", "8", "/", "8", "/",
      "8", "/", "R", "3", "K", "3", " ", "w", " ", "Q", " ", "-", " ", "0",
      " ", "1">>)
RookFenBlack == JsString(
    <<"4", "k", "3", "/", "8", "/", "8", "/", "8", "/", "8", "/", "8", "/",
      "8", "/", "R", "3", "K", "3", " ", "b", " ", "Q", " ", "-", " ", "0",
      " ", "1">>)

Str4(a, b, c, d) == JsString(<<a, b, c, d>>)

Puzzle(id, fen, solution, description, turn) ==
    [id |-> id, fen |-> fen, solution |-> solution, description |-> description,
     turn |-> turn]

mockPuzzles ==
    <<Puzzle("p1", StartFen, <<Str4("e", "2", "e", "4"), Str4("e", "7", "e", "5")>>,
             "Test Puzzle 1", "w"),
      Puzzle("p2", RookFen, <<Str4("a", "1", "a", "8")>>, "Test Puzzle 2", "w")>>

longerPuzzles ==
    <<Puzzle("p3", StartFen,
             <<Str4("e", "2", "e", "4"), Str4("e", "7", "e", "5"),
               Str4("g", "1", "f", "3")>>,
             "Three moves", "w"),
      Puzzle("p4", RookFen,
             <<Str4("a", "1", "a", "7"), Str4("e", "8", "e", "6"),
               Str4("a", "7", "a", "8")>>,
             "Reply is not a king move", "w"),
      Puzzle("p5", RookFenBlack,
             <<Str4("e", "8", "d", "7"), Str4("a", "1", "a", "7"),
               Str4("d", "7", "d", "6")>>,
             "Black first", "b")>>

\* A position whose ninth rank string holds a piece, on which fenToBoard
\* faults, as the second and as the first puzzle of a list.
NineRankFen == JsString(
    <<"8", "/", "8", "/", "8", "/", "8", "/", "8", "/", "8", "/", "8", "/", "8",
      "/", "p", " ", "b", " ", "-", " ", "-", " ", "0", " ", "1">>)

faultyNext ==
    <<Puzzle("p6", RookFen, <<Str4("a", "1", "a", "8")>>, "Rook mate", "w"),
      Puzzle("p7", NineRankFen, <<Str4("e", "8", "e", "7")>>, "Nine ranks", "b")>>

faultyFirst ==
    <<Puzzle("p7", NineRankFen, <<Str4("e", "8", "e", "7")>>, "Nine ranks", "b"),
      Puzzle("p6", RookFen, <<Str4("a", "1", "a", "8")>>, "Rook mate", "w")>>

PuzzleLists == {mockPuzzles, longerPuzzles, faultyNext, faultyFirst}

\* ----------------------------------------------------------- state machine

NoCall == [fn |-> "none"]


Init ==
    /\ boardState = EmptyBoard
    /\ fromAlgebraic = JsString(<< >>)
    /\ toAlgebraic = JsString(<< >>)
    /\ playerTurn = "w"
    /\ result = Ret(FALSE)
    /\ pc = "idle"
    /\ call = NoCall
    /\ main = ModuleLoaded

\* A call isValidMove(b, f, t, turn); the arguments and the outcome are kept.
CallIsValidMove(b, f, t, turn) ==
    /\ boardState' = b
    /\ fromAlgebraic' = f
    /\ toAlgebraic' = t
    /\ playerTurn' = turn
    /\ result' = isValidMove(b, f, t, turn)
    /\ pc' = "returned"
    /\ UNCHANGED <<call, main>>

\* isValidMove between two squares of the window, on a board holding any
\* piece (or none) on the source square and at most one other piece.
IsValidMoveOnBoard ==
    /\ pc = "idle"
    /\ \E r1 \in WindowRows, c1 \in WindowCols, r2 \in WindowRows, c2 \in WindowCols :
       \E src \in SquareState, extra \in ExtraPieces, turn \in PlayerTurn :
        /\ ~(extra.r = r1 /\ extra.c = c1)
        /\ CallIsValidMove(BoardOf(r1, c1, src, extra),
                           indicesToAlgebraic(r1, c1), indicesToAlgebraic(r2, c2), turn)

\* isValidMove on square texts, valid and malformed, on a board holding any
\* piece (or none) on e4.
IsValidMoveOnText ==
    /\ pc = "idle"
    /\ \E f \in TextInputs, t \in TextInputs :
       \E src \in SquareState, turn \in PlayerTurn :
        /\ CallIsValidMove(Place(EmptyBoard, 4, 4, src), f, t, turn)

Next == IsValidMoveOnBoard \/ IsValidMoveOnText

Spec == Init /\ [][Next]_vars

\* A call fenToBoard(fenString).
FenToBoardCall ==
    /\ pc = "idle"
    /\ \E fen \in FenInputs :
        call' = [fn |-> "fenToBoard", fenString |-> fen, ret |-> fenToBoard(fen)]
    /\ pc' = "returned"
    /\ UNCHANGED <<boardState, fromAlgebraic, toAlgebraic, playerTurn, result, main>>

NextFen == FenToBoardCall

\* A call makeMove(boardState, fromAlgebraic, toAlgebraic) on a board that is
\* object 0 of the heap.
MakeMoveCall ==
    /\ pc = "idle"
    /\ \E grid \in MoveBoards :
       \E f \in AllSquareTexts \cup InvalidTexts, t \in AllSquareTexts \cup InvalidTexts :
        call' = [fn |-> "makeMove", heap |-> HeapOf(grid), b |-> 0,
                 from |-> f, to |-> t, ret |-> makeMove(HeapOf(grid), 0, f, t)]
    /\ pc' = "returned"
    /\ UNCHANGED <<boardState, fromAlgebraic, toAlgebraic, playerTurn, result, main>>

NextMove == MakeMoveCall

\* A call algebraicToIndices(algebraic).
AlgebraicToIndicesCall ==
    /\ pc = "idle"
    /\ \E text \in CoordTexts :
        call' = [fn |-> "algebraicToIndices", algebraic |-> text,
                 ret |-> algebraicToIndices(text)]
    /\ pc' = "returned"
    /\ UNCHANGED <<boardState, fromAlgebraic, toAlgebraic, playerTurn, result, main>>

\* A call indicesToAlgebraic(row, col).
IndicesToAlgebraicCall ==
    /\ pc = "idle"
    /\ \E row \in CoordIndices, col \in CoordIndices :
        call' = [fn |-> "indicesToAlgebraic", row |-> row, col |-> col,
                 ret |-> indicesToAlgebraic(row, col)]
    /\ pc' = "returned"
    /\ UNCHANGED <<boardState, fromAlgebraic, toAlgebraic, playerTurn, result, main>>

NextCoord == AlgebraicToIndicesCall \/ IndicesToAlgebraicCall

SpecCoord == Init /\ [][NextCoord]_vars

\* The rest of the model does not move during a puzzle session, and an
\* event of the page is not a recorded call.
SessionFrame ==
    /\ UNCHANGED <<boardState, fromAlgebraic, toAlgebraic, playerTurn, result, pc>>
    /\ call' = NoCall

\* Lines 14-21: the DOMContentLoaded listener, up to the start of the fetch.
DOMContentLoaded ==
    /\ main.readyState = "loading"
    /\ main' = [initializeBoardUI(main) EXCEPT !.messageArea = "message_area",
                                               !.nextPuzzleButton = "next_puzzle_button",
                                               !.readyState = "complete",
                                               !.fetch = "pending"]
    /\ SessionFrame

\* Lines 37-40: a fault raised while the first puzzle is loaded is caught.
CatchLoadFault(m, faulted) ==
    IF faulted THEN [m EXCEPT !.puzzle_description = "Error loading puzzles."] ELSE m

\* Lines 25-32: the fetch delivers a non-empty puzzle list, and the first
\* puzzle is loaded.
LoadPuzzlesFetched ==
    /\ main.fetch = "pending"
    /\ \E list \in PuzzleLists :
        LET fetched == [main EXCEPT !.puzzles = list, !.fetch = "done"]
        IN  main' = CatchLoadFault(loadPuzzleByIndex(fetched, 0), LoadFaults(fetched, 0))
    /\ SessionFrame

\* Lines 33-36: the fetch delivers an empty list.
LoadPuzzlesEmpty ==
    /\ main.fetch = "pending"
    /\ main' = [main EXCEPT !.fetch = "done",
                            !.puzzle_description = "No puzzles available."]
    /\ SessionFrame

\* Lines 26-28 and 37-40: the fetch fails.
LoadPuzzlesFailed ==
    /\ main.fetch = "pending"
    /\ main' = [main EXCEPT !.fetch = "failed",
                            !.puzzle_description = "Error loading puzzles."]
    /\ SessionFrame

\* Line 18: a click on the next-puzzle button, when it can be clicked.
NextPuzzleClick ==
    /\ main.nextPuzzleButton # Null
    /\ main.next_puzzle_button.display # "none"
    /\ ~main.next_puzzle_button.disabled
    /\ main' = loadPuzzleByIndex(main, main.currentPuzzleIndex + 1)
    /\ SessionFrame

\* Lines 43-80: a call loadPuzzleByIndex(index), with an index inside the
\* list or one step outside it; the call is recorded.
LoadPuzzleByIndexCall ==
    /\ \E index \in (0 - 1)..Len(main.puzzles) :
        /\ main' = loadPuzzleByIndex(main, index)
        /\ call' = [fn |-> "loadPuzzleByIndex", index |-> index]
    /\ UNCHANGED <<boardState, fromAlgebraic, toAlgebraic, playerTurn, result, pc>>

\* Line 143: a click on the square named sq.
HandleSquareClickOn(sq) ==
    /\ main.chessboard.squares
    /\ main' = handleSquareClick(main, sq)
    /\ SessionFrame

HandleSquareClick == \E sq \in AllSquareTexts : HandleSquareClickOn(sq)

NextMain ==
    \/ DOMContentLoaded
    \/ LoadPuzzlesFetched
    \/ LoadPuzzlesEmpty
    \/ LoadPuzzlesFailed
    \/ NextPuzzleClick
    \/ LoadPuzzleByIndexCall
    \/ HandleSquareClick

SpecMain == Init /\ [][NextMain]_vars

\* The square a user who follows the solution clicks next: the destination
\* of the move at the cursor when its source is selected, else its source.
FollowSquare(m) ==
    LET expectedMoveString == ActivePuzzle(m).solution[Cursor(m) + 1]
    IN  IF m.selectedSquare = substring(expectedMoveString, 0, 2)
        THEN substring(expectedMoveString, 2, 4)
        ELSE substring(expectedMoveString, 0, 2)

\* A click of the user who follows the solution of the active puzzle.
FollowClick ==
    /\ ~main.currentPuzzle.isNull
    /\ Cursor(main) < Len(ActivePuzzle(main).solution)
    /\ HandleSquareClickOn(FollowSquare(main))

\* A follow click is possible and changes the state: what
\* ENABLED <<FollowClick>>_vars states, written as a state predicate.
FollowClickEnabled ==
    /\ ~main.currentPuzzle.isNull
    /\ Cursor(main) < Len(ActivePuzzle(main).solution)
    /\ main.chessboard.squares
    /\ (handleSquareClick(main, FollowSquare(main)) # main \/ call # NoCall)

\* The session with a user who keeps clicking along the solution: weak
\* fairness of FollowClick, with its enabling condition written out.
SpecMainFair ==
    /\ Init
    /\ [][NextMain]_vars
    /\ ([]<>~FollowClickEnabled \/ []<><<FollowClick>>_vars)

SpecMove == Init /\ [][NextMove]_vars

SpecFen == Init /\ [][NextFen]_vars

\* ------------------------------------------------- reading a recorded call

Returned == pc = "returned"

\* An algebraic square name: a file letter a..h followed by a rank digit 1..8.
ValidName(s) ==
    /\ s.typeof = "string"
    /\ Len(s.chars) = 2
    /\ s.chars[1] \in {"a", "b", "c", "d", "e", "f", "g", "h"}
    /\ s.chars[2] \in {"1", "2", "3", "4", "5", "6", "7", "8"}

SqRow(s) == 8 - (IndexIn(Digits, s.chars[2]) - 1)
SqCol(s) == IndexIn(LowerLetters, s.chars[1]) - 1

ValidCall == Returned /\ ValidName(fromAlgebraic) /\ ValidName(toAlgebraic)

FromRow == SqRow(fromAlgebraic)
FromCol == SqCol(fromAlgebraic)
ToRow == SqRow(toAlgebraic)
ToCol == SqCol(toAlgebraic)
SrcPiece == boardState[FromRow][FromCol]
DstPiece == boardState[ToRow][ToCol]
DeltaRow == ToRow - FromRow
DeltaCol == ToCol - FromCol

OfSide(p, turn) ==
    (turn = "w" /\ p \in WhitePieces) \/ (turn = "b" /\ p \in BlackPieces)
Other(turn) == IF turn = "w" THEN "b" ELSE "w"

Accepted == result = Ret(TRUE)
Rejected == result = Ret(FALSE)

\* The source holds a piece of the side to move and the destination holds
\* no piece of that side.
PassesChecks == OfSide(SrcPiece, playerTurn) /\ ~OfSide(DstPiece, playerTurn)

Forward == IF playerTurn = "w" THEN 0 - 1 ELSE 1
StartRow == IF playerTurn = "w" THEN 6 ELSE 1

Within(x, a, b) == (a < x /\ x < b) \/ (b < x /\ x < a)

\* The squares strictly between source and destination on their common
\* rank or file, and on their common diagonal.
LineBetween ==
    {sq \in (0..7) \X (0..7) :
        \/ sq[1] = FromRow /\ FromRow = ToRow /\ Within(sq[2], FromCol, ToCol)
        \/ sq[2] = FromCol /\ FromCol = ToCol /\ Within(sq[1], FromRow, ToRow)}
DiagonalBetween ==
    {sq \in (0..7) \X (0..7) :
        /\ Abs(DeltaRow) = Abs(DeltaCol)
        /\ Within(sq[1], FromRow, ToRow) /\ Within(sq[2], FromCol, ToCol)
        /\ Abs(sq[1] - FromRow) = Abs(sq[2] - FromCol)}
AllEmpty(sqs) == \A sq \in sqs : boardState[sq[1]][sq[2]] = Null

\* ------------------------------------------------------------------ claims

C2_TurnOwnership ==
    (ValidCall /\ OfSide(SrcPiece, Other(playerTurn))) => Rejected

\* C2 witness: white to move, a black knight asked to make a knight jump
\* onto an empty square.
C2_Witness ==
    /\ ValidCall /\ playerTurn = "w" /\ SrcPiece = "n" /\ DstPiece = Null
    /\ Abs(DeltaRow) = 2 /\ Abs(DeltaCol) = 1
    /\ Rejected

C6_Bishop ==
    (ValidCall /\ SrcPiece \in {"B", "b"} /\ PassesChecks)
    => /\ Accepted \/ Rejected
       /\ Accepted <=>
            /\ Abs(DeltaRow) = Abs(DeltaCol)
            /\ Abs(DeltaRow) > 0
            /\ AllEmpty(DiagonalBetween)

\* C6 witness: a bishop asked to jump over a piece on its diagonal, refused.
C6_Witness ==
    /\ ValidCall /\ SrcPiece \in {"B", "b"} /\ PassesChecks
    /\ Abs(DeltaRow) = Abs(DeltaCol)
    /\ ~AllEmpty(DiagonalBetween)
    /\ Rejected

\* C7: for a queen on the source square, isValidMove gives the disjunction of
\* what it gives for a bishop and for a rook of the same colour standing on
\* that square of the otherwise identical board.
C7_QueenIsBishopOrRook ==
    (ValidCall /\ SrcPiece \in {"Q", "q"})
    => LET bishop == IF SrcPiece = "Q" THEN "B" ELSE "b"
           rook == IF SrcPiece = "Q" THEN "R" ELSE "r"
           asBishop == isValidMove(Place(boardState, FromRow, FromCol, bishop),
                                   fromAlgebraic, toAlgebraic, playerTurn)
           asRook == isValidMove(Place(boardState, FromRow, FromCol, rook),
                                 fromAlgebraic, toAlgebraic, playerTurn)
       IN  /\ ~result.threw /\ ~asBishop.threw /\ ~asRook.threw
           /\ result.value = (asBishop.value \/ asRook.value)

\* C7 witness: a queen of the side to move refused a move of two or more
\* squares along a rank because a piece stands in between.
C7_Witness ==
    /\ ValidCall /\ SrcPiece \in {"Q", "q"} /\ PassesChecks
    /\ DeltaRow = 0 /\ Abs(DeltaCol) >= 2
    /\ ~AllEmpty(LineBetween)
    /\ Rejected

\* C8: a knight move that passes the ownership and no-self-capture checks is
\* accepted if and only if (|dr|,|dc|) is (2,1) or (1,2), whatever stands on
\* the squares other than source and destination.
C8_Knight ==
    (ValidCall /\ SrcPiece \in {"N", "n"} /\ PassesChecks)
    => /\ Accepted \/ Rejected
       /\ Accepted <=>
            \/ Abs(DeltaRow) = 2 /\ Abs(DeltaCol) = 1
            \/ Abs(DeltaRow) = 1 /\ Abs(DeltaCol) = 2

\* C8 witness: an accepted (1,2) knight jump with a piece standing next to
\* the knight, on a square that is neither source nor destination.
C8_Witness ==
    /\ ValidCall /\ SrcPiece \in {"N", "n"} /\ PassesChecks
    /\ Abs(DeltaRow) = 1 /\ Abs(DeltaCol) = 2
    /\ \E sq \in (0..7) \X (0..7) :
          /\ boardState[sq[1]][sq[2]] # Null
          /\ sq # <<FromRow, FromCol>> /\ sq # <<ToRow, ToCol>>
          /\ Abs(sq[1] - FromRow) <= 1 /\ Abs(sq[2] - FromCol) <= 1
    /\ Accepted

\* C9: a king move of the side to move is accepted if and only if |dr| <= 1,
\* |dc| <= 1, dr and dc are not both zero, and the destination holds no piece
\* of the colour of the king.
C9_King ==
    (ValidCall /\ SrcPiece \in {"K", "k"} /\ OfSide(SrcPiece, playerTurn))
    => /\ Accepted \/ Rejected
       /\ Accepted <=>
            /\ Abs(DeltaRow) <= 1 /\ Abs(DeltaCol) <= 1
            /\ ~(DeltaRow = 0 /\ DeltaCol = 0)
            /\ ~OfSide(DstPiece, playerTurn)

\* C9 witness: a king capturing an opposing piece one square away diagonally.
C9_Witness ==
    /\ ValidCall /\ SrcPiece \in {"K", "k"} /\ OfSide(SrcPiece, playerTurn)
    /\ Abs(DeltaRow) = 1 /\ Abs(DeltaCol) = 1
    /\ OfSide(DstPiece, Other(playerTurn))
    /\ Accepted

\* C10: isValidMove returns false, and raises nothing, whenever the source or
\* the destination is not a valid algebraic square name, and whenever the
\* source cell of the board is empty.
C10_MalformedOrEmptySource ==
    (Returned /\ (\/ ~ValidName(fromAlgebraic)
                  \/ ~ValidName(toAlgebraic)
                  \/ SrcPiece = Null))
    => Rejected

\* C10 witness: a source text with file a and rank 0, a valid destination.
C10_Witness ==
    /\ Returned
    /\ fromAlgebraic = Str2("a", "0") /\ ValidName(toAlgebraic)
    /\ Rejected

\* ------------------------------------------- reading a fenToBoard call

FenCalled == pc = "returned" /\ call.fn = "fenToBoard"
FenReturned == FenCalled /\ ~call.ret.threw

MinOf(S) == CHOOSE x \in S : \A y \in S : x <= y

\* The piece-placement field: the characters before the first space.
PlacementOf(fen) ==
    LET s == fen.chars
        spaces == {i \in 1..Len(s) : s[i] = " "}
        stop == IF spaces = {} THEN Len(s) + 1 ELSE MinOf(spaces)
    IN  SubSeq(s, 1, stop - 1)

\* The rank strings of a placement field: what lies between its slashes.
RankCount(p) == Cardinality({i \in 1..Len(p) : p[i] = "/"}) + 1
RankOf(p, j) ==
    LET slashes == {i \in 1..Len(p) : p[i] = "/"}
        Slash(k) == IF k = 0 THEN 0
                    ELSE IF k = RankCount(p) THEN Len(p) + 1
                    ELSE CHOOSE i \in slashes :
                            Cardinality({x \in slashes : x < i}) = k - 1
    IN  SubSeq(p, Slash(j - 1) + 1, Slash(j) - 1)

IsDigit(ch) == ch \in {"0", "1", "2", "3", "4", "5", "6", "7", "8", "9"}
DigitValue(ch) == IndexIn(Digits, ch) - 1

RECURSIVE Expand(_)
\* A rank string written out cell by cell: a digit stands for that many
\* empty cells, any other character for itself.
Expand(rank) ==
    IF rank = << >> THEN << >>
    ELSE LET ch == Head(rank)
         IN  (IF IsDigit(ch) THEN [i \in 1..DigitValue(ch) |-> Null] ELSE <<ch>>)
             \o Expand(Tail(rank))

\* The first eight cells of the expansion, empty where it is shorter.
FirstEight(rank) ==
    LET e == Expand(rank)
    IN  [c \in 0..7 |-> IF c + 1 <= Len(e) THEN e[c + 1] ELSE Null]

WellFormedChars(p) ==
    \A i \in 1..Len(p) : p[i] = "/" \/ IsDigit(p[i]) \/ p[i] \in PieceCode

C17_NeverFaults ==
    FenCalled => ~call.ret.threw

\* C18: characters of a rank string that fall beyond column 8 are ignored:
\* every row of a returned board has exactly the cells 0..7, and a rank
\* string that overflows leaves the first eight cells of its expansion.
C18_OverflowIgnored ==
    FenReturned
    => LET p == PlacementOf(call.fenString)
           board == call.ret.value
       IN  /\ DOMAIN board = 0..7
           /\ \A r \in 0..7 : DOMAIN board[r] = 0..7
           /\ \A r \in 0..7 :
                (r < RankCount(p) /\ Len(Expand(RankOf(p, r + 1))) > 8)
                => board[r] = FirstEight(RankOf(p, r + 1))

\* C18 witness: a returned board for a rank string with a piece letter after
\* the eighth column.
C18_Witness ==
    /\ FenReturned
    /\ \E r \in 0..7 :
        LET p == PlacementOf(call.fenString)
        IN  /\ r < RankCount(p)
            /\ Len(Expand(RankOf(p, r + 1))) > 8
            /\ ~IsDigit(RankOf(p, r + 1)[Len(RankOf(p, r + 1))])

\* --------------------------------------------- reading a makeMove call

MoveCalled == pc = "returned" /\ call.fn = "makeMove"
MoveValid == MoveCalled /\ ValidName(call.from) /\ ValidName(call.to)
OldGrid == Grid(call.heap, call.b)
NewGrid == Grid(call.ret.heap, call.ret.value)
MoveFrom == <<SqRow(call.from), SqCol(call.from)>>
MoveTo == <<SqRow(call.to), SqCol(call.to)>>
Squares == (0..7) \X (0..7)
At(grid, sq) == grid[sq[1]][sq[2]]

\* C11 as claimed: for every pair of valid squares the result equals the
\* input except that the destination holds the piece of the source cell and
\* the source cell is empty.
C11_Original ==
    MoveValid
    => /\ ~call.ret.threw
       /\ At(NewGrid, MoveTo) = At(OldGrid, MoveFrom)
       /\ At(NewGrid, MoveFrom) = Null
       /\ \A sq \in Squares \ {MoveFrom, MoveTo} : At(NewGrid, sq) = At(OldGrid, sq)

\* C11 as amended: for every pair of distinct valid squares the result
\* equals the input except that the destination holds the piece of the
\* source cell (a piece on the destination is overwritten) and the source
\* cell is empty; when source and destination are one square, that cell is
\* empty in the result and every other cell is as in the input.
C11_ApplyMove ==
    MoveValid
    => /\ ~call.ret.threw
       /\ MoveFrom # MoveTo => At(NewGrid, MoveTo) = At(OldGrid, MoveFrom)
       /\ At(NewGrid, MoveFrom) = Null
       /\ \A sq \in Squares \ {MoveFrom, MoveTo} : At(NewGrid, sq) = At(OldGrid, sq)

\* C11 witness: a piece moved onto a square that held another piece.
C11_Witness ==
    /\ MoveValid /\ MoveFrom # MoveTo
    /\ At(OldGrid, MoveFrom) # Null /\ At(OldGrid, MoveTo) # Null
    /\ At(OldGrid, MoveTo) # At(OldGrid, MoveFrom)
    /\ At(NewGrid, MoveTo) = At(OldGrid, MoveFrom)

\* C12: makeMove with two valid squares leaves every array of the input
\* board as it was, and returns a different outer array none of whose rows
\* is a row of the input.
C12_InputUntouched ==
    MoveValid
    => /\ ~call.ret.threw
       /\ \A id \in DOMAIN call.heap : call.ret.heap[id] = call.heap[id]
       /\ call.ret.value # call.b
       /\ \A r \in 0..7, q \in 0..7 :
            call.ret.heap[call.ret.value][r] # call.heap[call.b][q]

\* C12 witness: a move that changes two rows of the result.
C12_Witness ==
    /\ MoveValid /\ MoveFrom[1] # MoveTo[1]
    /\ At(OldGrid, MoveFrom) # Null
    /\ NewGrid # OldGrid

\* C13: makeMove with a source or destination that is no valid square name
\* returns the input board itself, unchanged, and raises nothing.
C13_InvalidSquaresEcho ==
    (MoveCalled /\ (~ValidName(call.from) \/ ~ValidName(call.to)))
    => /\ ~call.ret.threw
       /\ call.ret.value = call.b
       /\ call.ret.heap = call.heap

\* C13 witness: a valid source and a destination that does not parse.
C13_Witness ==
    /\ MoveCalled /\ ValidName(call.from) /\ ~ValidName(call.to)
    /\ call.ret.value = call.b

\* ------------------------------------------------- the shape of a board

IsBoardOfPieceCodes(b) ==
    /\ DOMAIN b = 0..7
    /\ \A r \in 0..7 : /\ DOMAIN b[r] = 0..7
                       /\ \A c \in 0..7 : b[r][c] \in SquareState

\* C19: every board returned by fenToBoard, and every board returned by
\* makeMove, is an 8x8 grid whose cells each hold one of the 12 piece codes
\* or are empty.
C19_GridOfPieceCodes ==
    /\ FenReturned => IsBoardOfPieceCodes(call.ret.value)
    /\ MoveCalled /\ ~call.ret.threw => IsBoardOfPieceCodes(NewGrid)

\* ------------------------------------- reading a coordinate-mapper call

ToIndicesCalled == pc = "returned" /\ call.fn = "algebraicToIndices"
ToAlgebraicCalled == pc = "returned" /\ call.fn = "indicesToAlgebraic"
OnBoard(row, col) == row \in 0..7 /\ col \in 0..7

\* C14: algebraicToIndices maps file f and rank k to row 8 - k and the column
\* of f (a1 to (7,0), h8 to (0,7)), and indicesToAlgebraic is its inverse on
\* the 64 names and on the 64 index pairs.
C14_RoundTrip ==
    /\ (ToIndicesCalled /\ ValidName(call.algebraic))
        => /\ call.ret = Mapping(SqRow(call.algebraic), SqCol(call.algebraic))
           /\ call.algebraic = Str2("a", "1") => call.ret = Mapping(7, 0)
           /\ call.algebraic = Str2("h", "8") => call.ret = Mapping(0, 7)
           /\ indicesToAlgebraic(call.ret.row, call.ret.col) = call.algebraic
    /\ (ToAlgebraicCalled /\ OnBoard(call.row, call.col))
        => algebraicToIndices(call.ret) = Mapping(call.row, call.col)

\* C14 witness: h8 mapped to row 0, column 7.
C14_Witness ==
    /\ ToIndicesCalled /\ call.algebraic = Str2("h", "8")
    /\ call.ret = Mapping(0, 7)

\* C15: algebraicToIndices returns null for every text that is not a file
\* a..h followed by a rank digit 1..8, and indicesToAlgebraic returns null
\* for every pair with row or column outside 0..7.
C15_InvalidIsNull ==
    /\ (ToIndicesCalled /\ ~ValidName(call.algebraic)) => call.ret = NullMapping
    /\ (ToAlgebraicCalled /\ ~OnBoard(call.row, call.col)) => call.ret = NullString

\* C15 witness: the text a0, whose rank digit is below 1, mapped to null.
C15_Witness ==
    /\ ToIndicesCalled /\ call.algebraic = Str2("a", "0")
    /\ call.ret = NullMapping

\* --------------------------------------------------- reading the session

\* The standard starting position, written out cell by cell.
BackRank == <<"r", "n", "b", "q", "k", "b", "n", "r">>
StandardStart ==
    [r \in 0..7 |-> [c \in 0..7 |->
        CASE r = 0 -> BackRank[c + 1]
          [] r = 1 -> "p"
          [] r = 6 -> "P"
          [] r = 7 -> toUpperCase(BackRank[c + 1])
          [] OTHER -> Null]]

\* The standard start after e2-e4 and e7-e5.
AfterE4E5 == Place(Place(Place(Place(StandardStart, 6, 4, Null), 4, 4, "P"),
                         1, 4, Null), 3, 4, "p")

E2 == Str2("e", "2")
E4 == Str2("e", "4")

\* The active puzzle is the scenario: standard start, white first, solution
\* e2e4, e7e5.
ScenarioActive ==
    /\ ~main.currentPuzzle.isNull
    /\ ActivePuzzle(main).fen = StartFen
    /\ ActivePuzzle(main).turn = "w"
    /\ ActivePuzzle(main).solution =
            <<Str4("e", "2", "e", "4"), Str4("e", "7", "e", "5")>>

\* The scenario as loaded: cursor 0, white to move, the starting position.
ScenarioLoaded ==
    /\ ScenarioActive
    /\ Cursor(main) = 0
    /\ main.playerTurn = "w"
    /\ main.currentBoardState = StandardStart

Active == ~main.currentPuzzle.isNull

\* The step is a square click in which the player move and the scripted
\* reply were both applied: the cursor went up by two.
MoveAndReplyStep ==
    /\ Active
    /\ HandleSquareClick
    /\ Cursor(main') = Cursor(main) + 2

\* C21: a click that applies the move of the player and the scripted reply
\* leaves the side to move on the side of the player, also when the reply is
\* the last move of the solution.
C21_TurnBackAfterReply ==
    [][MoveAndReplyStep => main'.playerTurn = main.playerTurn]_vars

\* The solution move expected at the cursor, undefined past the end.
ExpectedMove(m) ==
    IF Cursor(m) < Len(ActivePuzzle(m).solution)
    THEN ActivePuzzle(m).solution[Cursor(m) + 1] ELSE JsUndefined

\* With a square selected, a click on sq is rejected: sq is the selected
\* square, or the move is not pseudo-legal, or it is not the expected move.
DestinationRejected(m, sq) ==
    \/ sq = m.selectedSquare
    \/ ~isValidMove(m.currentBoardState, m.selectedSquare, sq, m.playerTurn).value
    \/ Concat(m.selectedSquare, sq) # ExpectedMove(m)

\* C22: a rejected destination click leaves the board, the cursor and the
\* side to move unchanged and clears the selection: a step from a state with
\* a selection either has this effect or is no rejected click on any square.
C22_RejectedClickFrame ==
    [][(Active /\ main.selectedSquare # NullString)
        => \/ /\ main'.currentBoardState = main.currentBoardState
              /\ Cursor(main') = Cursor(main)
              /\ main'.playerTurn = main.playerTurn
              /\ main'.selectedSquare = NullString
              /\ main'.chessboard.selected = {}
           \/ \A sq \in AllSquareTexts :
                ~(DestinationRejected(main, sq) /\ HandleSquareClickOn(sq))]_vars

\* C22 witness: a pseudo-legal move that is not the expected one has just
\* been rejected.
C22_Witness ==
    /\ Active
    /\ main.selectedSquare = NullString
    /\ main.message_area.textContent = "Incorrect move. Try again."
    /\ Cursor(main) = 0

\* The square sq of the current board holds a piece of the side to move.
OwnPieceAt(m, sq) ==
    m.currentBoardState[SqRow(sq)][SqCol(sq)]
        \in (IF m.playerTurn = "w" THEN WhitePieces ELSE BlackPieces)

\* While nothing is selected, a click on sq selects sq exactly when sq holds
\* a piece of the side to move.
FirstClickSelects ==
    (Active /\ main.selectedSquare = NullString /\ main.currentBoardState # NullBoard)
    => \A sq \in AllSquareTexts :
        HandleSquareClickOn(sq)
        => main'.selectedSquare = (IF OwnPieceAt(main, sq) THEN sq ELSE NullString)

\* A selected square holds a piece of the side to move.
SelectionIsOwnPiece ==
    main.selectedSquare # NullString => OwnPieceAt(main, main.selectedSquare)

\* C23: while no square is selected a click selects the clicked square if
\* and only if it holds a piece of the side to move, and in every reachable
\* state a selected square holds a piece of the side to move.
C23_SelectionOwnPiece ==
    [][FirstClickSelects]_vars /\ []SelectionIsOwnPiece

\* The last step was a call loadPuzzleByIndex(index) with an index inside
\* the puzzle list.
LoadedInRange ==
    /\ call.fn = "loadPuzzleByIndex"
    /\ call.index >= 0
    /\ call.index < Len(main.puzzles)

\* The puzzle at index i is active and freshly loaded.
FreshlyLoaded(m, i) ==
    /\ m.currentPuzzle = PuzzleRef(i)
    /\ m.currentPuzzleIndex = i
    /\ Cursor(m) = 0
    /\ m.playerTurn = m.puzzles[i + 1].turn
    /\ ~fenToBoard(m.puzzles[i + 1].fen).threw
    /\ m.currentBoardState = fenToBoard(m.puzzles[i + 1].fen).value
    /\ m.selectedSquare = NullString
    /\ m.next_puzzle_button.display = "none"

\* A step changes no puzzle object other than the one active after it.
OnlyActiveMutated ==
    \A i \in 1..Len(main.puzzles) :
        (Len(main'.puzzles) = Len(main.puzzles) /\ i # main'.currentPuzzle.ref + 1)
        => main'.puzzles[i] = main.puzzles[i]

\* C24: loadPuzzleByIndex with an index inside the list makes that puzzle
\* active with the cursor at zero, the side to move of the puzzle, the board
\* parsed from its position, no selection and the next-puzzle button hidden;
\* and no step mutates a puzzle other than the active one.
C24_LoadMakesActive ==
    [](LoadedInRange => FreshlyLoaded(main, call.index)) /\ [][OnlyActiveMutated]_vars

\* The last step was a call loadPuzzleByIndex(currentPuzzleIndex + 1) made
\* while the last puzzle of the list was active.
NextRequestedPastLast ==
    /\ Active
    /\ call.fn = "loadPuzzleByIndex"
    /\ main.currentPuzzleIndex = Len(main.puzzles) - 1
    /\ call.index = main.currentPuzzleIndex + 1

\* C25: requesting the puzzle after the last one displays the message
\* "No more puzzles available or invalid index." and leaves the next-puzzle
\* button disabled with the text "All Puzzles Solved!".
C25_NoMorePuzzles ==
    NextRequestedPastLast
    => /\ main.message_area.textContent = "No more puzzles available or invalid index."
       /\ main.next_puzzle_button.disabled
       /\ main.next_puzzle_button.textContent = "All Puzzles Solved!"

\* The grid after the solution moves lo+1..hi (counted from 1) have been
\* applied in order by makeMove.
RECURSIVE ReplayMoves(_, _, _, _)
ReplayMoves(grid, solution, lo, hi) ==
    IF hi <= lo THEN grid
    ELSE makeMoveOnGrid(ReplayMoves(grid, solution, lo, hi - 1),
                        substring(solution[hi], 0, 2), substring(solution[hi], 2, 4))

\* The board is the parsed position of the active puzzle with the first
\* cursor solution moves applied.
BoardIsReplay ==
    Active
    => /\ ~fenToBoard(ActivePuzzle(main).fen).threw
       /\ main.currentBoardState =
            ReplayMoves(fenToBoard(ActivePuzzle(main).fen).value,
                        ActivePuzzle(main).solution, 0, Cursor(main))

\* A click that changes the board raises the cursor, and the change is the
\* solution moves between the old and the new cursor.
BoardChangesWithCursor ==
    (Active /\ main'.currentBoardState # main.currentBoardState /\ HandleSquareClick)
    => /\ Cursor(main') > Cursor(main)
       /\ main'.currentBoardState =
            ReplayMoves(main.currentBoardState, ActivePuzzle(main).solution,
                        Cursor(main), Cursor(main'))

\* C26: in every reachable state the current board is the parsed starting
\* position of the active puzzle with the first cursor solution moves applied
\* by makeMove, and a click changes the board only together with a cursor
\* increment and only by the solution moves at the old cursor.
C26_BoardIsReplay ==
    []BoardIsReplay /\ [][BoardChangesWithCursor]_vars

CursorInRange ==
    Active => Cursor(main) \in 0..Len(ActivePuzzle(main).solution)

\* With the cursor at the end of the solution, a square click changes
\* neither the board nor the cursor.
SolvedIsFinal ==
    (Active /\ Cursor(main) = Len(ActivePuzzle(main).solution))
    => \/ /\ main'.currentBoardState = main.currentBoardState
          /\ main'.currentPuzzle = main.currentPuzzle
          /\ Cursor(main') = Cursor(main)
       \/ ~HandleSquareClick

\* C27: the cursor of the active puzzle stays within 0..length(solution),
\* and once it equals length(solution) no square click changes the board or
\* the cursor.
C27_CursorBounded ==
    []CursorInRange /\ [][SolvedIsFinal]_vars

\* C27 witness: with the cursor at the end of the solution a pseudo-legal
\* move has been tried and refused.
C27_Witness ==
    /\ Active
    /\ Cursor(main) = Len(ActivePuzzle(main).solution)
    /\ main.message_area.textContent = "Incorrect move. Try again."

\* The move at 0-based position i of the solution of puzzle is pseudo-legal
\* for side on the parsed position with the moves before it applied.
MoveLegalAt(puzzle, i, side) ==
    /\ ~fenToBoard(puzzle.fen).threw
    /\ isValidMove(ReplayMoves(fenToBoard(puzzle.fen).value, puzzle.solution, 0, i),
                   substring(puzzle.solution[i + 1], 0, 2),
                   substring(puzzle.solution[i + 1], 2, 4), side).value

\* Every scripted reply (odd position) is pseudo-legal for the other side.
RepliesLegal(puzzle) ==
    \A i \in 0..(Len(puzzle.solution) - 1) :
        i % 2 = 1 => MoveLegalAt(puzzle, i, Flip(puzzle.turn))

\* C28: for an active puzzle whose scripted replies are all pseudo-legal
\* when played, in every state between two handlers in which the puzzle is
\* not solved the cursor is even and the side to move is the side of the
\* puzzle.
C28_PlayerToMove ==
    (Active /\ ~Solved(main) /\ RepliesLegal(ActivePuzzle(main)))
    => /\ Cursor(main) % 2 = 0
       /\ main.playerTurn = ActivePuzzle(main).turn

\* C28 witness: a reply has been played and the puzzle is not solved.
C28_Witness ==
    /\ Active
    /\ ~Solved(main)
    /\ RepliesLegal(ActivePuzzle(main))
    /\ Cursor(main) = 2

\* The source of the expected move is selected and the move is pseudo-legal
\* for the side to move, so a click on its destination is accepted.
ExpectedMoveReady(m) ==
    /\ ~m.currentPuzzle.isNull
    /\ Cursor(m) < Len(ActivePuzzle(m).solution)
    /\ m.selectedSquare = substring(ExpectedMove(m), 0, 2)
    /\ isValidMove(m.currentBoardState, substring(ExpectedMove(m), 0, 2),
                   substring(ExpectedMove(m), 2, 4), m.playerTurn).value

\* The board after the expected move of the player.
BoardAfterExpected(m) ==
    makeMoveOnGrid(m.currentBoardState, substring(ExpectedMove(m), 0, 2),
                   substring(ExpectedMove(m), 2, 4))

\* A reply follows the expected move and is not pseudo-legal for the other
\* side on the board after that move.
ReplyNotLegal(m) ==
    /\ Cursor(m) + 1 < Len(ActivePuzzle(m).solution)
    /\ ~isValidMove(BoardAfterExpected(m),
                    substring(ActivePuzzle(m).solution[Cursor(m) + 2], 0, 2),
                    substring(ActivePuzzle(m).solution[Cursor(m) + 2], 2, 4),
                    Flip(m.playerTurn)).value

ReplyRefused ==
    /\ main'.currentBoardState = BoardAfterExpected(main)
    /\ Cursor(main') = Cursor(main) + 1
    /\ main'.message_area.textContent = "Error in puzzle solution (computer move)."
    /\ main'.message_area.className = "error"
    /\ main'.playerTurn = main.playerTurn

\* C29: when the reply that follows an accepted move of the player is not
\* pseudo-legal for the other side, the click ends with the board and the
\* cursor as they were after the move of the player, an error message, and
\* the side to move back on the side of the player.
C29_IllegalReplyRefused ==
    [][(ExpectedMoveReady(main) /\ ReplyNotLegal(main)
        /\ HandleSquareClickOn(substring(ExpectedMove(main), 2, 4)))
       => ReplyRefused]_vars

\* C29 witness: a reply has been refused after the first move of the player.
C29_Witness ==
    /\ Active
    /\ Cursor(main) = 1
    /\ main.message_area.textContent = "Error in puzzle solution (computer move)."
    /\ main.currentBoardState # fenToBoard(ActivePuzzle(main).fen).value

\* The solution of puzzle is not empty and each of its moves is pseudo-legal
\* for the alternating side on the position reached by the moves before it.
SolutionLegal(puzzle) ==
    /\ Len(puzzle.solution) > 0
    /\ \A i \in 0..(Len(puzzle.solution) - 1) :
          MoveLegalAt(puzzle, i, IF i % 2 = 0 THEN puzzle.turn ELSE Flip(puzzle.turn))

\* The active puzzle, when its solution is legal, is solved.
FollowedToEnd ==
    (Active /\ SolutionLegal(ActivePuzzle(main)))
    => Cursor(main) = Len(ActivePuzzle(main).solution)

\* A follow click on the destination plays the move of the player and, in
\* the same click, the reply when one follows.
ReplyInSameClick ==
    (ExpectedMoveReady(main) /\ SolutionLegal(ActivePuzzle(main)) /\ FollowClick)
    => Cursor(main') = IF Cursor(main) + 1 < Len(ActivePuzzle(main).solution)
                       THEN Cursor(main) + 2
                       ELSE Cursor(main) + 1

\* C30: for a puzzle with a non-empty solution of pseudo-legal moves, once
\* every step is a click along the solution (source, then destination of
\* the expected move) the puzzle is eventually and then for ever solved, and
\* each reply is played in the click that plays the move of the player.
C30_FollowingSolves ==
    /\ <>[][FollowClick]_vars => <>[]FollowedToEnd
    /\ [][ReplyInSameClick]_vars

\* C30 witness: a puzzle with a legal solution of three moves is solved.
C30_Witness ==
    /\ Active
    /\ SolutionLegal(ActivePuzzle(main))
    /\ Len(ActivePuzzle(main).solution) = 3
    /\ Cursor(main) = 3

====
